---- MODULE Spec2Model ----
(***************************************************************************)
(* Model of path_helpers.path: the recursive tree traversal (walk,         *)
(* walkdirs, walkfiles), the unique-name resolution (noconflict) and the   *)
(* split of the extension (splitext, stripext).                            *)
(*                                                                         *)
(* A string is a sequence of one-character strings, a path is a sequence   *)
(* of segment names (each a string); str(path) joins the segments with "/".*)
(* A generator is a stack of frames, one per nested call; the consumer     *)
(* creates it (Call), advances it (Resume) and receives what it yields.    *)
(***************************************************************************)
EXTENDS Integers, Sequences, FiniteSets, TLC

VARIABLES
    fs,             \* the directory tree: path -> "dir" | "file"
    mode,           \* which method was called: "walk" | "walkdirs" | "walkfiles"
    root,           \* self of the outermost call
    pattern,        \* <<>> (None) or <<glob>>
    errors,         \* the errors= argument
    ignore,         \* the ignore= argument
    status,         \* "idle" | "created" | "running" | "suspended" | "done" | "raised"
                    \* | "abandoned"
    stack,          \* the nested generator frames, outermost first
    out,            \* the entries yielded so far, in order
    warnings,       \* the diagnostics emitted by warnings.warn, in order
    exc,            \* the exception propagated to the consumer, or NoExc
    faultLog,       \* the faults the file system raised: [op, path]
    listed,         \* the directories whose entries were read (pt of listdir)
    handles,        \* the number of directory handles the traversal holds open
    candidate_path, \* noconflict: the path under test
    exists,         \* noconflict: the set of paths that exist
    nc_self,        \* noconflict: the path noconflict was called on
    nc_pc,          \* noconflict: "idle" | "test" | "derive" | "return" | "returned"
    tested,         \* noconflict: the candidates whose existence was tested
    split_self,     \* splitext, stripext: the path the method was called on
    split_op,       \* which one was called: "none" | "splitext" | "stripext"
    split_out       \* what it returned: <<a, b>> of splitext, <<a>> of stripext

walkVars == <<fs, mode, root, pattern, errors, ignore, status, stack, out,
              warnings, exc, faultLog, listed, handles>>
ncVars == <<candidate_path, exists, nc_self, nc_pc, tested>>
splitVars == <<split_self, split_op, split_out>>
vars == <<fs, mode, root, pattern, errors, ignore, status, stack, out,
          warnings, exc, faultLog, listed, handles, candidate_path, exists, nc_self,
          nc_pc, tested, split_self, split_op, split_out>>

-----------------------------------------------------------------------------
(* Bounds of the model *)

\* the number of faults the file system may raise during one traversal
MaxFaults == 2

\* how many elements of a candidate's copy chain may exist beforehand
MaxChain == 3

-----------------------------------------------------------------------------
(* Strings and paths *)

\* the elements of a sequence
Range(s) == {s[k] : k \in 1..Len(s)}

\* the sequences that enumerate the set S, each element once (iterdir order
\* is the platform's: any order)
Orderings(S) ==
    {s \in [1..Cardinality(S) -> S] : \A j, k \in 1..Cardinality(S) : s[j] = s[k] => j = k}

\* Path.parent
parent(p) == SubSeq(p, 1, Len(p) - 1)

\* Path.name
name(p) == p[Len(p)]

\* p is a strict ancestor of q
Under(p, q) == Len(p) < Len(q) /\ SubSeq(q, 1, Len(p)) = p

RECURSIVE str(_)
\* str(path): the segments joined by "/"
str(p) ==
    IF Len(p) = 0 THEN <<".">>
    ELSE IF Len(p) = 1 THEN p[1]
    ELSE str(parent(p)) \o <<"/">> \o name(p)

-----------------------------------------------------------------------------
(* The file system *)

A == <<"a">>
C == <<"c">>
E == <<"e">>
F == <<"f">>
Btxt == <<"b", ".", "t", "x", "t">>
Dtxt == <<"d", ".", "t", "x", "t">>

\* {a/, a/b.txt, a/c/, a/c/d.txt}
Tree1 ==
    [p \in {<<A>>, <<A, Btxt>>, <<A, C>>, <<A, C, Dtxt>>} |->
        IF p \in {<<A, Btxt>>, <<A, C, Dtxt>>} THEN "file" ELSE "dir"]

\* a deeper tree with sibling directories and an empty directory:
\* {a/, a/b.txt, a/c/, a/c/e/, a/c/e/b.txt, a/c/d.txt, a/f/, a/f/e/}
Tree2 ==
    [p \in {<<A>>, <<A, Btxt>>, <<A, C>>, <<A, C, E>>, <<A, C, E, Btxt>>, <<A, C, Dtxt>>,
            <<A, F>>, <<A, F, E>>} |->
        IF p \in {<<A, Btxt>>, <<A, C, E, Btxt>>, <<A, C, Dtxt>>} THEN "file" ELSE "dir"]

Trees == {Tree1, Tree2}

\* Path.is_dir / Path.is_file on a tree without links
is_dir(t, p) == p \in DOMAIN t /\ t[p] = "dir"
is_file(t, p) == p \in DOMAIN t /\ t[p] = "file"

\* the entries of directory d
Children(t, d) == {q \in DOMAIN t : Len(q) = Len(d) + 1 /\ parent(q) = d}

\* ListTarget without the fall-back: self is read whatever it is
ListTargetSelf(t, self) == self

\* path.listdir(None): the directory that is read is self when self is a
\* directory and self.parent otherwise
ListTarget(t, self) == IF is_dir(t, self) THEN self ELSE parent(self)
listdir(t, self) == Children(t, ListTarget(t, self))

\* path.dirs(None)
dirs(t, self) == {p \in listdir(t, self) : is_dir(t, p)}

-----------------------------------------------------------------------------
(* Pattern matching *)

RECURSIVE GlobMatch(_, _)
\* fnmatch.fnmatch for globs made of literals, "*" and "?"
GlobMatch(s, g) ==
    IF g = <<>> THEN s = <<>>
    ELSE IF Head(g) = "*"
        THEN GlobMatch(s, Tail(g)) \/ (s # <<>> /\ GlobMatch(Tail(s), g))
    ELSE /\ s # <<>>
         /\ (Head(g) = "?" \/ Head(g) = Head(s))
         /\ GlobMatch(Tail(s), Tail(g))

\* path.fnmatch: the glob is matched against self.name only
fnmatch(p, g) == GlobMatch(name(p), g)

\* "pattern is None or child.fnmatch(pattern)"
PatternOk(p) == pattern = <<>> \/ fnmatch(p, pattern[1])

RECURSIVE ReMatchAt(_, _)
\* the regular expression r (literals, "." and the anchor "$") matches a
\* prefix of s
ReMatchAt(s, r) ==
    IF r = <<>> THEN TRUE
    ELSE IF Head(r) = "$" THEN s = <<>> /\ ReMatchAt(s, Tail(r))
    ELSE /\ s # <<>>
         /\ (Head(r) = "." \/ Head(r) = Head(s))
         /\ ReMatchAt(Tail(s), Tail(r))

\* re.search(r, s): r matches somewhere in s
re_search(r, s) == \E k \in 0..Len(s) : ReMatchAt(SubSeq(s, k + 1, Len(s)), r)

NoIgnore == [kind |-> "none", val |-> <<>>]

\* "ignore if isinstance(ignore, Iterable) else [ignore]": a str is an
\* Iterable too, and iterating it gives its characters one by one
ignore_list(ig) ==
    IF ig.kind = "list" THEN ig.val
    ELSE [k \in 1..Len(ig.val) |-> <<ig.val[k]>>]

\* ignore_match of walkdirs and walkfiles
ignore_match(ig, x) ==
    /\ ig.kind # "none"
    /\ \E k \in 1..Len(ignore_list(ig)) : re_search(ignore_list(ig)[k], str(x))

-----------------------------------------------------------------------------
(* The arguments a call may be given *)

Modes == {"walk", "walkdirs", "walkfiles"}
ValidErrors == {"strict", "warn", "ignore"}
ErrorsArgs == ValidErrors \cup {"loose"}

Patterns == {<<>>, <<<<"*", ".", "t", "x", "t">>>>, <<<<"e">>>>}

IgnoreArgs ==
    { NoIgnore,
      [kind |-> "list", val |-> <<<<"c", "$">>>>],
      [kind |-> "list", val |-> <<<<"e">>, <<"b", ".", "t">>>>],
      [kind |-> "str", val |-> <<"c", "$">>],
      [kind |-> "str", val |-> <<"f">>] }

\* what the consumer may be handed instead of an entry
NoExc == [op |-> "none", path |-> <<>>]
ValueError == [op |-> "ValueError", path |-> <<>>]

-----------------------------------------------------------------------------
(* Generator frames *)

\* the frame of a call on path p, not yet started
Frame(p) == [self |-> p, pc |-> "enter", child_list |-> <<>>, i |-> 1]

Top == stack[Len(stack)]

SetTop(f) == [stack EXCEPT ![Len(stack)] = f]

\* the frame's position moved to the next child of the for loop
NextChild(f) == [f EXCEPT !.pc = "loop", !.i = @ + 1]

\* Descend with the recursion put off until the calls under way have ended
DescendDeferred(child) == <<Frame(child)>> \o SetTop(NextChild(Top))

\* Descend that never recurses
DescendNever(child) == SetTop(NextChild(Top))

\* Descend that recurses only into a child the name pattern accepts
DescendIfMatch(child) ==
    IF PatternOk(child) THEN Append(SetTop(NextChild(Top)), Frame(child))
    ELSE SetTop(NextChild(Top))

\* IgnoredSelf that never returns early: only the yield tests ignore
IgnoredSelfNever(self) == FALSE

\* the recursive call on child: the child's generator is run to its end
\* before the caller's for loop goes to the next child
Descend(child) == Append(SetTop(NextChild(Top)), Frame(child))

\* "if ignore_match(self): return" at the start of walkdirs and walkfiles
IgnoredSelf(self) == ignore_match(ignore, self)

\* Return that ends the whole sequence instead of the innermost call
ReturnEndsAll ==
    /\ stack' = <<>>
    /\ status' = "done"

\* the innermost call returns: its caller's for loop goes on, and the
\* outermost call ends the sequence
Return ==
    /\ stack' = SubSeq(stack, 1, Len(stack) - 1)
    /\ status' = IF Len(stack) = 1 THEN "done" ELSE "running"

\* an exception leaves every nested generator and reaches the consumer
Raise(e) ==
    /\ stack' = <<>>
    /\ status' = "raised"
    /\ exc' = e

\* the file system may raise a fault now
MayFault == Cardinality(faultLog) < MaxFaults

\* ListExcept whose "warn" branch lacks the return: after the warning the
\* call goes on to a for loop over a child_list that was never bound
ListExceptNoReturn(fault, self) ==
    /\ MayFault
    /\ faultLog' = faultLog \cup {fault}
    /\ IF errors = "ignore"
          THEN Return /\ UNCHANGED <<warnings, exc>>
       ELSE IF errors = "warn"
          THEN /\ warnings' = Append(warnings, [msg |-> "list", path |-> self, cause |-> fault])
               /\ Raise([op |-> "NameError", path |-> self])
       ELSE Raise(fault) /\ UNCHANGED warnings

\* ListExcept whose last branch returns instead of raising
ListExceptSwallow(fault, self) ==
    /\ MayFault
    /\ faultLog' = faultLog \cup {fault}
    /\ IF errors = "warn"
          THEN /\ warnings' = Append(warnings, [msg |-> "list", path |-> self, cause |-> fault])
               /\ Return
               /\ UNCHANGED exc
       ELSE Return /\ UNCHANGED <<warnings, exc>>

\* the except clause around the listing of self: "ignore" returns, "warn"
\* warns and returns, anything else raises the fault again
ListExcept(fault, self) ==
    /\ MayFault
    /\ faultLog' = faultLog \cup {fault}
    /\ IF errors = "ignore"
          THEN Return /\ UNCHANGED <<warnings, exc>>
       ELSE IF errors = "warn"
          THEN /\ warnings' = Append(warnings, [msg |-> "list", path |-> self, cause |-> fault])
               /\ Return
               /\ UNCHANGED exc
       ELSE Raise(fault) /\ UNCHANGED warnings

\* closedir of a listing that stays lazy: the handle is kept until the
\* iterator over the entries is used up
closedir_lazy(h) == h

\* list(pt.iterdir()) reads every entry before listdir returns: the
\* directory is opened, read to its end and closed within the call
opendir(h) == h + 1
closedir(h) == h - 1

\* the consumer calls the method: a generator object is made, none of the
\* method's body runs yet
Call ==
    /\ status = "idle"
    /\ \E m \in Modes, r \in DOMAIN fs, p \in Patterns, e \in ErrorsArgs, ig \in IgnoreArgs :
          /\ (m = "walk" => ig = NoIgnore)
          /\ mode' = m
          /\ root' = r
          /\ pattern' = p
          /\ errors' = e
          /\ ignore' = ig
          /\ stack' = <<Frame(r)>>
    /\ status' = "created"
    /\ UNCHANGED <<fs, out, warnings, exc, faultLog, listed>>
    /\ UNCHANGED <<handles, ncVars, splitVars>>

\* the consumer asks for the next entry: the generator starts or goes on
\* after its last yield
Resume ==
    /\ status \in {"created", "suspended"}
    /\ status' = "running"
    /\ UNCHANGED <<fs, mode, root, pattern, errors, ignore, stack, out, warnings,
                   exc, faultLog, listed>>
    /\ UNCHANGED <<handles, ncVars, splitVars>>

\* the consumer abandons the sequence: it closes the generator or drops it,
\* GeneratorExit leaves every nested generator at its yield (no yield is
\* inside a try) and the frames are gone
Abandon ==
    /\ status \in {"created", "suspended"}
    /\ status' = "abandoned"
    /\ stack' = <<>>
    /\ UNCHANGED <<fs, mode, root, pattern, errors, ignore, out, warnings, exc,
                   faultLog, listed>>
    /\ UNCHANGED <<handles, ncVars, splitVars>>

\* the for loop over the children is exhausted: the call returns
EndOfLoop ==
    /\ status = "running"
    /\ Top.pc = "loop"
    /\ Top.i > Len(Top.child_list)
    /\ Return
    /\ UNCHANGED <<fs, mode, root, pattern, errors, ignore, out, warnings, exc,
                   faultLog, listed>>
    /\ UNCHANGED <<handles, ncVars, splitVars>>

-----------------------------------------------------------------------------
(* walk *)

\* the start of walk's body: the errors check, then the listing
walk_enter ==
    /\ status = "running"
    /\ mode = "walk"
    /\ Top.pc = "enter"
    /\ IF errors \notin ValidErrors
          THEN Raise(ValueError) /\ UNCHANGED <<warnings, faultLog, listed, handles>>
       ELSE \/ \E order \in Orderings(listdir(fs, Top.self)) :
                 /\ stack' = SetTop([Top EXCEPT !.pc = "loop", !.child_list = order])
                 /\ listed' = listed \cup {ListTarget(fs, Top.self)}
                 /\ handles' = closedir(opendir(handles))
                 /\ UNCHANGED <<status, warnings, exc, faultLog>>
            \/ /\ ListExcept([op |-> "list", path |-> Top.self], Top.self)
               /\ handles' \in {handles, closedir(opendir(handles))}
               /\ UNCHANGED listed
    /\ UNCHANGED <<fs, mode, root, pattern, errors, ignore, out>>
    /\ UNCHANGED <<ncVars, splitVars>>

\* "if pattern is None or child.fnmatch(pattern): yield child"
walk_yield ==
    /\ status = "running"
    /\ mode = "walk"
    /\ Top.pc = "loop"
    /\ Top.i <= Len(Top.child_list)
    /\ LET child == Top.child_list[Top.i] IN
          IF PatternOk(child)
             THEN out' = Append(out, child) /\ status' = "suspended"
          ELSE UNCHANGED <<out, status>>
    /\ stack' = SetTop([Top EXCEPT !.pc = "isdir"])
    /\ UNCHANGED <<fs, mode, root, pattern, errors, ignore, warnings, exc, faultLog, listed>>
    /\ UNCHANGED <<handles, ncVars, splitVars>>

\* the type test of the child and the recursion into a directory
walk_isdir ==
    /\ status = "running"
    /\ mode = "walk"
    /\ Top.pc = "isdir"
    /\ LET child == Top.child_list[Top.i] IN
          \/ /\ stack' = IF is_dir(fs, child)
                            THEN Descend(child)
                         ELSE SetTop(NextChild(Top))
             /\ UNCHANGED <<status, warnings, exc, faultLog>>
          \/ /\ MayFault
             /\ LET fault == [op |-> "type", path |-> child] IN
                   /\ faultLog' = faultLog \cup {fault}
                   /\ IF errors = "ignore"
                         THEN /\ stack' = SetTop(NextChild(Top))
                              /\ UNCHANGED <<status, warnings, exc>>
                      ELSE IF errors = "warn"
                         THEN /\ warnings' = Append(warnings,
                                     [msg |-> "access", path |-> child, cause |-> fault])
                              /\ stack' = SetTop(NextChild(Top))
                              /\ UNCHANGED <<status, exc>>
                      ELSE Raise(fault) /\ UNCHANGED warnings
    /\ UNCHANGED <<fs, mode, root, pattern, errors, ignore, out, listed>>
    /\ UNCHANGED <<handles, ncVars, splitVars>>

-----------------------------------------------------------------------------
(* walkdirs *)

\* the start of walkdirs' body: the errors check, ignore_match(self), then
\* self.dirs(), whose type tests of the children run inside the same try
walkdirs_enter ==
    /\ status = "running"
    /\ mode = "walkdirs"
    /\ Top.pc = "enter"
    /\ IF errors \notin ValidErrors
          THEN Raise(ValueError) /\ UNCHANGED <<warnings, faultLog, listed, handles>>
       ELSE IF IgnoredSelf(Top.self)
          THEN Return /\ UNCHANGED <<warnings, exc, faultLog, listed, handles>>
       ELSE \/ \E order \in Orderings(dirs(fs, Top.self)) :
                 /\ stack' = SetTop([Top EXCEPT !.pc = "loop", !.child_list = order])
                 /\ listed' = listed \cup {ListTarget(fs, Top.self)}
                 /\ handles' = closedir(opendir(handles))
                 /\ UNCHANGED <<status, warnings, exc, faultLog>>
            \/ /\ ListExcept([op |-> "list", path |-> Top.self], Top.self)
               /\ handles' \in {handles, closedir(opendir(handles))}
               /\ UNCHANGED listed
            \/ \E child \in listdir(fs, Top.self) :
                 /\ ListExcept([op |-> "type", path |-> child], Top.self)
                 /\ listed' = listed \cup {ListTarget(fs, Top.self)}
                 /\ handles' = closedir(opendir(handles))
    /\ UNCHANGED <<fs, mode, root, pattern, errors, ignore, out>>
    /\ UNCHANGED <<ncVars, splitVars>>

\* "if pattern is None or child.fnmatch(pattern): if not ignore_match(child):
\* yield child"
walkdirs_yield ==
    /\ status = "running"
    /\ mode = "walkdirs"
    /\ Top.pc = "loop"
    /\ Top.i <= Len(Top.child_list)
    /\ LET child == Top.child_list[Top.i] IN
          IF PatternOk(child) /\ ~ignore_match(ignore, child)
             THEN out' = Append(out, child) /\ status' = "suspended"
          ELSE UNCHANGED <<out, status>>
    /\ stack' = SetTop([Top EXCEPT !.pc = "recurse"])
    /\ UNCHANGED <<fs, mode, root, pattern, errors, ignore, warnings, exc, faultLog, listed>>
    /\ UNCHANGED <<handles, ncVars, splitVars>>

\* "for subsubdir in child.walkdirs(pattern, errors, ignore)"
walkdirs_recurse ==
    /\ status = "running"
    /\ mode = "walkdirs"
    /\ Top.pc = "recurse"
    /\ stack' = Descend(Top.child_list[Top.i])
    /\ UNCHANGED <<fs, mode, root, pattern, errors, ignore, status, out, warnings, exc,
                   faultLog, listed>>
    /\ UNCHANGED <<handles, ncVars, splitVars>>

-----------------------------------------------------------------------------
(* walkfiles *)

\* the start of walkfiles' body: the errors check, ignore_match(self), then
\* the listing
walkfiles_enter ==
    /\ status = "running"
    /\ mode = "walkfiles"
    /\ Top.pc = "enter"
    /\ IF errors \notin ValidErrors
          THEN Raise(ValueError) /\ UNCHANGED <<warnings, faultLog, listed, handles>>
       ELSE IF IgnoredSelf(Top.self)
          THEN Return /\ UNCHANGED <<warnings, exc, faultLog, listed, handles>>
       ELSE \/ \E order \in Orderings(listdir(fs, Top.self)) :
                 /\ stack' = SetTop([Top EXCEPT !.pc = "loop", !.child_list = order])
                 /\ listed' = listed \cup {ListTarget(fs, Top.self)}
                 /\ handles' = closedir(opendir(handles))
                 /\ UNCHANGED <<status, warnings, exc, faultLog>>
            \/ /\ ListExcept([op |-> "list", path |-> Top.self], Top.self)
               /\ handles' \in {handles, closedir(opendir(handles))}
               /\ UNCHANGED listed
    /\ UNCHANGED <<fs, mode, root, pattern, errors, ignore, out>>
    /\ UNCHANGED <<ncVars, splitVars>>

\* one round of the for loop: the type tests of the child, then the yield of
\* a file or the recursion into a directory
walkfiles_child ==
    /\ status = "running"
    /\ mode = "walkfiles"
    /\ Top.pc = "loop"
    /\ Top.i <= Len(Top.child_list)
    /\ LET child == Top.child_list[Top.i] IN
          \/ /\ IF is_file(fs, child)
                   THEN /\ stack' = SetTop(NextChild(Top))
                        /\ IF PatternOk(child) /\ ~ignore_match(ignore, child)
                              THEN out' = Append(out, child) /\ status' = "suspended"
                           ELSE UNCHANGED <<out, status>>
                ELSE IF is_dir(fs, child)
                   THEN /\ stack' = Descend(child)
                        /\ UNCHANGED <<out, status>>
                ELSE /\ stack' = SetTop(NextChild(Top))
                     /\ UNCHANGED <<out, status>>
             /\ UNCHANGED <<warnings, exc, faultLog>>
          \/ /\ MayFault
             /\ LET fault == [op |-> "type", path |-> child] IN
                   /\ faultLog' = faultLog \cup {fault}
                   /\ IF errors = "ignore"
                         THEN /\ stack' = SetTop(NextChild(Top))
                              /\ UNCHANGED <<status, warnings, exc>>
                      ELSE IF errors = "warn"
                         THEN /\ warnings' = Append(warnings,
                                     [msg |-> "access", path |-> child, cause |-> fault])
                              /\ stack' = SetTop(NextChild(Top))
                              /\ UNCHANGED <<status, exc>>
                      ELSE Raise(fault) /\ UNCHANGED warnings
             /\ UNCHANGED out
    /\ UNCHANGED <<fs, mode, root, pattern, errors, ignore, listed>>
    /\ UNCHANGED <<handles, ncVars, splitVars>>

-----------------------------------------------------------------------------
(* The traversal as a state machine *)

NcIdle ==
    /\ candidate_path = <<>>
    /\ nc_self = <<>>
    /\ exists = {}
    /\ nc_pc = "idle"
    /\ tested = <<>>

SplitIdle ==
    /\ split_self = <<>>
    /\ split_op = "none"
    /\ split_out = <<>>

WalkIdle ==
    /\ mode = "walk"
    /\ root = <<>>
    /\ pattern = <<>>
    /\ errors = "strict"
    /\ ignore = NoIgnore
    /\ status = "idle"
    /\ stack = <<>>
    /\ out = <<>>
    /\ warnings = <<>>
    /\ exc = NoExc
    /\ faultLog = {}
    /\ listed = {}
    /\ handles = 0

Init ==
    /\ fs \in Trees
    /\ WalkIdle
    /\ NcIdle
    /\ SplitIdle

Next ==
    \/ Call
    \/ Resume
    \/ Abandon
    \/ EndOfLoop
    \/ walk_enter
    \/ walk_yield
    \/ walk_isdir
    \/ walkdirs_enter
    \/ walkdirs_yield
    \/ walkdirs_recurse
    \/ walkfiles_enter
    \/ walkfiles_child

Spec == Init /\ [][Next]_vars

\* the steps of the generator's body
Body ==
    \/ EndOfLoop
    \/ walk_enter
    \/ walk_yield
    \/ walk_isdir
    \/ walkdirs_enter
    \/ walkdirs_yield
    \/ walkdirs_recurse
    \/ walkfiles_enter
    \/ walkfiles_child

\* the traversal with a consumer that keeps asking for the next entry (unless
\* it abandons the sequence) and a generator that runs when it is resumed
SpecLive == Init /\ [][Next]_vars /\ WF_vars(Resume) /\ WF_vars(Body)

-----------------------------------------------------------------------------
(* Properties of the traversal *)

Yielded == Range(out)

\* the directory whose entries the outermost call reads
StartDir == ListTarget(fs, root)

\* the entries the traversal can meet: the root and what lies under StartDir
InScope(x) == x = root \/ Under(StartDir, x)

\* C1: in the sequence yielded by walk, walkdirs and walkfiles a directory
\* comes strictly before each of its descendants, and the entries yielded
\* under one directory are consecutive, so all of them come before the
\* directory's next sibling (depth-first pre-order), for every tree, order of
\* the listings and name pattern.
C1_PreOrder ==
    /\ \A j, k \in 1..Len(out) : Under(out[j], out[k]) => j < k
    /\ \A j, k \in 1..Len(out) : j # k => out[j] # out[k]
    /\ \A d \in DOMAIN fs : \A j, m, k \in 1..Len(out) :
          (j < m /\ m < k /\ (out[j] = d \/ Under(d, out[j])) /\ Under(d, out[k]))
              => Under(d, out[m])

\* a finished walk that yielded a directory, then a descendant of it, then
\* the directory's next sibling
C1_Witness ==
    /\ status = "done"
    /\ mode = "walk"
    /\ \E j, k, m \in 1..Len(out) :
          /\ j < k /\ k < m
          /\ Under(out[j], out[k])
          /\ parent(out[m]) = parent(out[j])

\* the ignore argument is a collection of patterns and one of them matches
\* the full string path of x
IgnoreSetMatches(x) ==
    /\ ignore.kind = "list"
    /\ \E k \in 1..Len(ignore.val) : re_search(ignore.val[k], str(x))

\* C2: in walkdirs and walkfiles, when the ignore set holds a pattern that
\* matches the full string path of a directory X the traversal meets, X is
\* never yielded, nothing under X is ever yielded and X is never listed,
\* whatever the name pattern is and whether or not the pattern matches the
\* paths of the descendants.
C2_IgnoredSubtree ==
    \A x \in DOMAIN fs :
        (/\ mode \in {"walkdirs", "walkfiles"}
         /\ status # "idle"
         /\ is_dir(fs, x)
         /\ InScope(x)
         /\ IgnoreSetMatches(x))
        => /\ \A k \in 1..Len(out) : out[k] # x /\ ~Under(x, out[k])
           /\ x \notin listed

\* a finished walkfiles that met an ignored directory holding a file which
\* the name pattern accepts and no ignore pattern matches, and that yielded
\* something else
C2_Witness ==
    /\ status = "done"
    /\ mode = "walkfiles"
    /\ out # <<>>
    /\ \E x \in DOMAIN fs :
          /\ is_dir(fs, x)
          /\ x # root
          /\ InScope(x)
          /\ IgnoreSetMatches(x)
          /\ parent(x) \in listed
          /\ \E f \in Children(fs, x) :
                is_file(fs, f) /\ PatternOk(f) /\ ~IgnoreSetMatches(f)

\* the entries between StartDir and x that the traversal tests with
\* ignore_match on its way to x: the root, the directories above x, x
TestedOnWay(x) == {root} \cup {y \in DOMAIN fs : Under(StartDir, y) /\ (y = x \/ Under(y, x))}

\* what a traversal that meets no fault has yielded when it ends: the entries
\* under StartDir of the kind the method yields that the name pattern accepts
\* and that no ignore_match on the way removes
Expected ==
    {x \in DOMAIN fs :
        /\ Under(StartDir, x)
        /\ PatternOk(x)
        /\ (mode = "walkdirs" => is_dir(fs, x))
        /\ (mode = "walkfiles" => is_file(fs, x))
        /\ (mode # "walk" => \A y \in TestedOnWay(x) : ~ignore_match(ignore, y))}

\* the faults that make the listing of directory x fail: a fault of listdir
\* and, in walkdirs, a fault of a type test that dirs() makes on an entry of x
ListingFaults(x) ==
    {[op |-> "list", path |-> x]}
        \cup (IF mode = "walkdirs"
                 THEN {[op |-> "type", path |-> y] : y \in Children(fs, x)}
              ELSE {})

\* C5: under errors='warn', when the listing of one directory X faults (and
\* nothing else does) in a traversal of a directory root, the traversal does
\* not fail, emits exactly one diagnostic, which carries X and the fault,
\* yields nothing under X, and has yielded at its end exactly the entries
\* outside X's subtree that it yields when nothing faults.
C5_WarnOneSubtree ==
    \A x \in DOMAIN fs : \A f \in ListingFaults(x) :
        (/\ errors = "warn"
         /\ is_dir(fs, root)
         /\ faultLog = {f})
        => /\ status # "raised"
           /\ warnings = <<[msg |-> "list", path |-> x, cause |-> f]>>
           /\ \A y \in Yielded : ~Under(x, y)
           /\ status = "done" => Yielded = {y \in Expected : ~Under(x, y)}

\* a finished walk under 'warn' in which the listing of a directory that is
\* not empty faulted and a sibling was yielded after that directory
C5_Witness ==
    /\ status = "done"
    /\ errors = "warn"
    /\ mode = "walk"
    /\ is_dir(fs, root)
    /\ \E x \in DOMAIN fs :
          /\ faultLog = {[op |-> "list", path |-> x]}
          /\ Children(fs, x) # {}
          /\ \E j, k \in 1..Len(out) :
                j < k /\ out[j] = x /\ parent(out[k]) = parent(x)

\* C6: under errors='strict' the first listing or type-test fault is handed
\* to the consumer as it is, no diagnostic is emitted, the traversal has
\* failed with no frame left to resume, and from then on nothing more is
\* yielded.
C6_StrictPropagates ==
    /\ [](errors = "strict" /\ faultLog # {}
             => /\ status = "raised"
                /\ exc \in faultLog
                /\ faultLog = {exc}
                /\ warnings = <<>>
                /\ stack = <<>>)
    /\ [][status = "raised" => (out' = out /\ status' = "raised")]_vars

\* a strict traversal that failed on a type test after it had yielded an
\* entry and with children of the root still to come
C6_Witness ==
    /\ status = "raised"
    /\ errors = "strict"
    /\ exc.op = "type"
    /\ out # <<>>
    /\ \E y \in Children(fs, StartDir) : y \notin Yielded /\ y \in Expected

\* C7 as claimed: with an errors argument that is none of 'strict', 'warn',
\* 'ignore', the call of walk, walkdirs or walkfiles itself fails with
\* ValueError, so once the method was called the traversal is in the failed
\* state, with nothing listed, yielded or warned.
C7_FailsAtCall ==
    (status # "idle" /\ errors \notin ValidErrors)
        => /\ status = "raised"
           /\ exc = ValueError
           /\ listed = {} /\ out = <<>> /\ warnings = <<>> /\ faultLog = {}

\* what the code does for C7: the call returns a generator; the ValueError
\* is raised when the generator is first advanced, before anything is
\* listed, yielded or warned.
C7_FailsAtFirstNext ==
    (status # "idle" /\ errors \notin ValidErrors)
        => /\ status \in {"created", "running", "raised", "abandoned"}
           /\ (status = "raised" => exc = ValueError)
           /\ (status = "running" => Len(stack) = 1 /\ Top.pc = "enter")
           /\ listed = {} /\ out = <<>> /\ warnings = <<>> /\ faultLog = {}

\* C8: walkfiles on a directory root, with no pattern, no ignore and no
\* fault, yields only regular files under the root, none twice, those under
\* one directory consecutively (depth-first), and at its end has yielded all
\* of them; for {a/, a/b.txt, a/c/, a/c/d.txt} rooted at a these are
\* a/b.txt and a/c/d.txt.
C8_WalkfilesAllFiles ==
    (/\ mode = "walkfiles"
     /\ status # "idle"
     /\ errors \in ValidErrors
     /\ pattern = <<>>
     /\ ignore = NoIgnore
     /\ is_dir(fs, root)
     /\ faultLog = {})
    => /\ \A k \in 1..Len(out) : is_file(fs, out[k]) /\ Under(root, out[k])
       /\ \A j, k \in 1..Len(out) : j # k => out[j] # out[k]
       /\ \A d \in DOMAIN fs : \A j, m, k \in 1..Len(out) :
             (j < m /\ m < k /\ Under(d, out[j]) /\ Under(d, out[k])) => Under(d, out[m])
       /\ status # "raised"
       /\ status = "done" =>
             /\ Yielded = {x \in DOMAIN fs : is_file(fs, x) /\ Under(root, x)}
             /\ (fs = Tree1 /\ root = <<A>>) => Yielded = {<<A, Btxt>>, <<A, C, Dtxt>>}

\* the finished walkfiles of the tree {a/, a/b.txt, a/c/, a/c/d.txt} from a
C8_Witness ==
    /\ status = "done"
    /\ mode = "walkfiles"
    /\ errors = "strict"
    /\ pattern = <<>>
    /\ ignore = NoIgnore
    /\ fs = Tree1
    /\ root = <<A>>
    /\ Len(out) = 2

\* C9: the name pattern filters what is yielded and nothing else: a
\* traversal that ends without a fault has yielded every entry under its
\* start directory that is of the kind the method yields, whose final
\* segment matches the pattern and that no ignore pattern removes, also when
\* directories between the root and the entry do not match the pattern; and
\* it yields no entry whose final segment does not match.
C9_PatternOnlyFilters ==
    /\ \A y \in Yielded : PatternOk(y)
    /\ (status = "done" /\ faultLog = {}) => Expected \subseteq Yielded
    /\ (errors \in ValidErrors /\ faultLog = {}) => status # "raised"

\* a finished traversal with a pattern that yielded an entry lying under a
\* directory below the root which the pattern does not match
C9_Witness ==
    /\ status = "done"
    /\ pattern # <<>>
    /\ \E y \in Yielded : \E d \in DOMAIN fs :
          Under(root, d) /\ Under(d, y) /\ ~PatternOk(d)

\* the one pattern the ignore string stands for matches the path of x
IgnoreStringMatches(x) == re_search(ignore.val, str(x))

\* C10 as claimed: with a single string as ignore, walkdirs and walkfiles
\* treat it as one regular expression, so a traversal that ends without a
\* fault has yielded an entry of its kind that the name pattern accepts, and
\* that lies under no directory the expression matches, if and only if the
\* whole expression matches nowhere in the entry's full string path.
C10_StringIsOnePattern ==
    (/\ status = "done"
     /\ mode \in {"walkdirs", "walkfiles"}
     /\ ignore.kind = "str"
     /\ faultLog = {})
    => \A x \in DOMAIN fs :
          (/\ Under(StartDir, x)
           /\ PatternOk(x)
           /\ (mode = "walkdirs" => is_dir(fs, x))
           /\ (mode = "walkfiles" => is_file(fs, x))
           /\ \A y \in TestedOnWay(x) \ {x} : ~IgnoreStringMatches(y))
          => (x \in Yielded <=> ~IgnoreStringMatches(x))

\* the children whose type test faulted
TypeFaulted == {f.path : f \in {g \in faultLog : g.op = "type"}}

\* what is left of Expected when the children of TypeFaulted are taken for
\* entries that are not directories: everything that is neither such a child
\* nor under one
ExpectedBesides(S) == {y \in Expected : y \notin S /\ \A c \in S : ~Under(c, y)}

\* the type-test faults of a traversal under 'warn' or 'ignore' touch only
\* the faulted children: the traversal does not fail, and at its end it has
\* yielded, the faulted children aside, exactly what it yields without fault
\* outside their subtrees
TypeFaultsTouchOnlyChild ==
    (/\ errors \in {"warn", "ignore"}
     /\ faultLog # {}
     /\ \A f \in faultLog : f.op = "type")
    => /\ status # "raised"
       /\ \A y \in Yielded : \A c \in TypeFaulted : ~Under(c, y)
       /\ status = "done" => Yielded \ TypeFaulted = ExpectedBesides(TypeFaulted)

\* C11 as claimed: in walk, walkdirs and walkfiles, under errors='warn' or
\* 'ignore', a fault of the type test of one child affects only that child,
\* which is not recursed into; every sibling of it is still yielded when it
\* qualifies and recursed into when it is a directory.
C11_TypeFaultOneChild == TypeFaultsTouchOnlyChild

\* what the code does for C11: the statement holds in walk and walkfiles,
\* whose type tests have a try of their own; in walkdirs the type tests run
\* inside self.dirs(), under the try of the listing, so one fault ends the
\* call on the parent: no entry of the parent is yielded or recursed into.
C11_WalkAndWalkfilesOnly ==
    /\ mode \in {"walk", "walkfiles"} => TypeFaultsTouchOnlyChild
    /\ (/\ mode = "walkdirs"
        /\ errors \in {"warn", "ignore"}
        /\ faultLog # {}
        /\ \A f \in faultLog : f.op = "type")
       => /\ status # "raised"
          /\ \A y \in Yielded : \A c \in TypeFaulted : ~Under(parent(c), y)

\* C14: the traversal holds no directory handle open when it hands control
\* to the consumer or moves on: at every yield, at every step to the next
\* sibling, at its normal end, after a fault was propagated and after the
\* consumer abandoned the sequence, the number of its open directory handles
\* is zero.
C14_NoOpenHandle ==
    (\/ status \in {"suspended", "done", "raised", "abandoned"}
     \/ (status = "running" /\ Top.pc = "loop"))
    => handles = 0

\* a sequence abandoned after a nested call had listed a directory below the
\* root and yielded an entry of it
C14_Witness ==
    /\ status = "abandoned"
    /\ is_dir(fs, root)
    /\ out # <<>>
    /\ Len(out[Len(out)]) > Len(root) + 1
    /\ parent(out[Len(out)]) \in listed

\* a walk of a directory root with valid errors and no pattern
PlainWalk ==
    /\ mode = "walk"
    /\ status # "idle"
    /\ is_dir(fs, root)
    /\ errors \in ValidErrors
    /\ pattern = <<>>

\* C16: walk on a directory root, over a finite tree without links, with no
\* fault and no pattern, yields strict descendants of the root only, none
\* twice, does not fail, has yielded every strict descendant when it ends,
\* and does end when the consumer keeps asking for the next entry.
C16_WalkAllDescendants ==
    /\ []((PlainWalk /\ faultLog = {})
            => /\ \A k \in 1..Len(out) : Under(root, out[k])
               /\ \A j, k \in 1..Len(out) : j # k => out[j] # out[k]
               /\ status # "raised"
               /\ status = "done" => Yielded = {x \in DOMAIN fs : Under(root, x)})
    /\ (PlainWalk /\ status = "created")
          ~> (status \in {"done", "abandoned"} \/ faultLog # {})

\* the finished walk of the deeper tree from a, with all seven descendants
C16_Witness ==
    /\ status = "done"
    /\ PlainWalk
    /\ faultLog = {}
    /\ fs = Tree2
    /\ root = <<A>>
    /\ Len(out) = 7

\* C19: when the root given to walk, walkdirs or walkfiles is not a
\* directory (an existing regular file), the first listing reads the root's
\* parent and never the root, so a traversal without fault does not fail and
\* yields entries under the parent: at its end, every sibling of the root
\* that qualifies, the root itself when the method yields files and it
\* qualifies, and what lies under the sibling directories.
C19_FileRootListsParent ==
    (/\ status # "idle"
     /\ is_file(fs, root)
     /\ errors \in ValidErrors
     /\ faultLog = {})
    => /\ status # "raised"
       /\ root \notin listed
       /\ listed # {} => parent(root) \in listed
       /\ \A y \in Yielded : Under(parent(root), y)
       /\ status = "done" =>
             /\ Yielded = Expected
             /\ \A y \in Children(fs, parent(root)) :
                   (/\ PatternOk(y)
                    /\ (mode = "walkdirs" => is_dir(fs, y))
                    /\ (mode = "walkfiles" => is_file(fs, y))
                    /\ ~ignore_match(ignore, root)
                    /\ ~ignore_match(ignore, y))
                   => y \in Yielded

\* the finished walkfiles from the file a/b.txt of the tree {a/, a/b.txt,
\* a/c/, a/c/d.txt}: it yielded a/b.txt itself and a/c/d.txt
C19_Witness ==
    /\ status = "done"
    /\ mode = "walkfiles"
    /\ fs = Tree1
    /\ root = <<A, Btxt>>
    /\ Yielded = {<<A, Btxt>>, <<A, C, Dtxt>>}

-----------------------------------------------------------------------------
(* noconflict: the copy-name grammar *)

DigitChars == <<"0", "1", "2", "3", "4", "5", "6", "7", "8", "9">>
Digits == Range(DigitChars)
DigitVal(c) == (CHOOSE k \in 1..Len(DigitChars) : DigitChars[k] = c) - 1

RECURSIVE int(_)
\* int(s) for s made of blanks then decimal digits, as the group " \d+" is
int(s) ==
    IF s = <<>> THEN 0
    ELSE IF s[Len(s)] = " " THEN int(SubSeq(s, 1, Len(s) - 1))
    ELSE int(SubSeq(s, 1, Len(s) - 1)) * Len(DigitChars) + DigitVal(s[Len(s)])

RECURSIVE Decimal(_)
\* '{}'.format(n) for an int n >= 0
Decimal(n) ==
    IF n < Len(DigitChars) THEN <<DigitChars[n + 1]>>
    ELSE Decimal(n \div Len(DigitChars)) \o <<DigitChars[(n % Len(DigitChars)) + 1]>>

CopyOpen == <<" ", "(", "C", "o", "p", "y">>

\* IsCopy with "\d*" in place of "\d+": a blank without digits is a count
IsCopyNoDigit(t) ==
    /\ Len(t) > Len(CopyOpen)
    /\ SubSeq(t, 1, Len(CopyOpen)) = CopyOpen
    /\ t[Len(t)] = ")"
    /\ LET count == SubSeq(t, Len(CopyOpen) + 1, Len(t) - 1) IN
          \/ count = <<>>
          \/ /\ count[1] = " "
             /\ \A k \in 2..Len(count) : count[k] \in Digits

\* t is matched in full by the group copy: " \(Copy( \d+)?\)"
IsCopy(t) ==
    /\ Len(t) > Len(CopyOpen)
    /\ SubSeq(t, 1, Len(CopyOpen)) = CopyOpen
    /\ t[Len(t)] = ")"
    /\ LET count == SubSeq(t, Len(CopyOpen) + 1, Len(t) - 1) IN
          \/ count = <<>>
          \/ /\ Len(count) > 1
             /\ count[1] = " "
             /\ \A k \in 2..Len(count) : count[k] \in Digits

\* t is matched in full by the group ext: "\.[^.]*"
IsExt(t) ==
    /\ t # <<>>
    /\ t[1] = "."
    /\ \A k \in 2..Len(t) : t[k] # "."

\* cre_copy with a greedy name group, "(?P<name>.*)": the name takes the
\* whole of s and the optional groups take no part
cre_copy_greedy(s) ==
    [name |-> s, copy |-> <<>>, copy_count |-> <<>>, ext |-> <<>>]

\* cre_copy.match(s).groupdict(): the name group is lazy, so the match is the
\* one with the shortest name for which the rest of s is an optional copy
\* group followed by an optional ext group.  A group that took no part is
\* None, written <<>> here: neither copy, copy_count nor ext can match the
\* empty string.
cre_copy(s) ==
    LET n == Len(s)
        Cuts(i) == {j \in i..n : /\ (j = i \/ IsCopy(SubSeq(s, i + 1, j)))
                                /\ (j = n \/ IsExt(SubSeq(s, j + 1, n)))}
        First == {i0 \in 0..n : Cuts(i0) # {} /\ \A i1 \in 0..(i0 - 1) : Cuts(i1) = {}}
        Last(i) == {j0 \in Cuts(i) : \A j1 \in Cuts(i) : j1 <= j0}
    IN  CHOOSE g \in UNION {{[name |-> SubSeq(s, 1, i),
                               copy |-> SubSeq(s, i + 1, j),
                               copy_count |-> SubSeq(s, i + Len(CopyOpen) + 1, j - 1),
                               ext |-> SubSeq(s, j + 1, n)] : j \in Last(i)} : i \in First} :
            TRUE

\* copy_count that takes a marker without a count for a first copy
copy_count_from_one(g) ==
    IF g.copy # <<>>
       THEN <<(IF g.copy_count = <<>> THEN 1 ELSE int(g.copy_count)) + 1>>
    ELSE <<>>

\* copy_count without the "+= 1": the old count is kept
copy_count_kept(g) ==
    IF g.copy # <<>>
       THEN <<(IF g.copy_count = <<>> THEN 0 ELSE int(g.copy_count))>>
    ELSE <<>>

\* the count after "if groups_i['copy']: ...": <<>> (None) when there was no
\* copy marker, else the old count (0 when it had none) plus one
copy_count(g) ==
    IF g.copy # <<>>
       THEN <<(IF g.copy_count = <<>> THEN 0 ELSE int(g.copy_count)) + 1>>
    ELSE <<>>

\* candidate_name_i: '{name} (Copy{}){}'.format(' {}'.format(copy_count) if
\* copy_count else '', ext or '', **groups_i)
candidate_name(s) ==
    LET g == cre_copy(s)
        c == copy_count(g)
    IN  g.name \o CopyOpen
            \o (IF c # <<>> /\ c[1] # 0 THEN <<" ">> \o Decimal(c[1]) ELSE <<>>)
            \o <<")">> \o g.ext

\* candidate_path.parent.joinpath(candidate_name_i)
NextCandidate(p) == Append(parent(p), candidate_name(name(p)))

\* a variant of the while condition that is tested once only, as an if
LoopAgainOnce(p) == p \in exists /\ tested = <<>>

\* the while condition: candidate_path.exists()
LoopAgain(p) == p \in exists

-----------------------------------------------------------------------------
(* noconflict as a state machine *)

Report == <<"r", "e", "p", "o", "r", "t">>
Txt == <<".", "t", "x", "t">>
CopyNoCount == CopyOpen \o <<")">>

\* the final segments noconflict is called on
NCNames ==
    { Report \o Txt,
      <<"a">>,
      <<"a", ".">>,
      <<".", "h">>,
      <<"a", ".", "b", ".", "c">>,
      <<"a">> \o CopyOpen \o <<" ", "9", ")">>,
      <<"a">> \o CopyOpen \o <<" ", "0", "9", ")", ".", "t">>,
      <<"a">> \o CopyOpen \o <<" ", "0", ")">>,
      <<"a">> \o CopyOpen \o <<" ", "x", ")", ".", "t">>,
      <<"a">> \o CopyOpen \o <<" ", "1", ".", "5", ")">>,
      <<"a">> \o CopyNoCount \o <<".", "b">> \o CopyNoCount,
      <<"a">> \o CopyOpen \o <<" ", ")">>,
      <<"a">> \o CopyOpen \o <<" ", "-", "1", ")", ".", "t">>,
      <<"a">> \o CopyOpen \o <<"1", ")">>,
      CopyNoCount }

NCParents == {<<>>, <<<<"d">>>>}

NCPaths == {Append(d, n) : d \in NCParents, n \in NCNames}

RECURSIVE Chain(_, _)
\* p and the k candidates that follow it
Chain(p, k) == IF k = 0 THEN {p} ELSE {p} \cup Chain(NextCandidate(p), k - 1)

\* the file systems a call may find: any part of the start of a chain
NCFileSystems == UNION {SUBSET Chain(p, MaxChain) : p \in NCPaths}

nc_call ==
    /\ nc_pc = "idle"
    /\ \E p \in NCPaths :
          /\ nc_self' = p
          /\ candidate_path' = p
    /\ nc_pc' = "test"
    /\ UNCHANGED <<exists, tested>>
    /\ UNCHANGED <<walkVars, splitVars>>

\* nc_test that makes the candidate it found free: it reserves the name
nc_test_reserve ==
    /\ nc_pc = "test"
    /\ tested' = Append(tested, candidate_path)
    /\ nc_pc' = IF LoopAgain(candidate_path) THEN "derive" ELSE "return"
    /\ exists' = exists \cup {candidate_path}
    /\ UNCHANGED <<candidate_path, nc_self>>
    /\ UNCHANGED <<walkVars, splitVars>>

\* "while candidate_path.exists()": the test, which leads to the loop body
\* or out of the loop to the return statement
nc_test ==
    /\ nc_pc = "test"
    /\ tested' = Append(tested, candidate_path)
    /\ nc_pc' = IF LoopAgain(candidate_path) THEN "derive" ELSE "return"
    /\ UNCHANGED <<candidate_path, exists, nc_self>>
    /\ UNCHANGED <<walkVars, splitVars>>

\* the loop body: the next candidate is derived from the current one
nc_derive ==
    /\ nc_pc = "derive"
    /\ candidate_path' = NextCandidate(candidate_path)
    /\ nc_pc' = "test"
    /\ UNCHANGED <<exists, nc_self, tested>>
    /\ UNCHANGED <<walkVars, splitVars>>

InitNC ==
    /\ fs = Tree1
    /\ WalkIdle
    /\ candidate_path = <<>>
    /\ nc_self = <<>>
    /\ nc_pc = "idle"
    /\ tested = <<>>
    /\ exists \in NCFileSystems
    /\ SplitIdle

\* "return candidate_path"
nc_return ==
    /\ nc_pc = "return"
    /\ nc_pc' = "returned"
    /\ UNCHANGED <<candidate_path, exists, nc_self, tested>>
    /\ UNCHANGED <<walkVars, splitVars>>

NextNC ==
    \/ nc_call
    \/ nc_test
    \/ nc_derive
    \/ nc_return

SpecNC == InitNC /\ [][NextNC]_vars

\* the file systems in which a chain is there from its start on: nothing, or
\* a path and the candidates that follow it, up to MaxChain of them
ChainFileSystems == {{}} \cup {Chain(p, k) : p \in NCPaths, k \in 0..MaxChain}

InitNCLive ==
    /\ fs = Tree1
    /\ WalkIdle
    /\ candidate_path = <<>>
    /\ nc_self = <<>>
    /\ nc_pc = "idle"
    /\ tested = <<>>
    /\ exists \in ChainFileSystems
    /\ SplitIdle

\* the steps of a call under way
nc_run ==
    \/ nc_test
    \/ nc_derive
    \/ nc_return

\* noconflict, once called, runs on: the loop and the return take their steps
SpecNCLive == InitNCLive /\ [][NextNC]_vars /\ WF_vars(nc_run)

\* another process creates an entry while the call is under way: one of the
\* names the call may come to test
create ==
    /\ nc_pc \in {"test", "derive", "return"}
    /\ \E p \in Chain(nc_self, MaxChain) \ exists :
          exists' = exists \cup {p}
    /\ UNCHANGED <<candidate_path, nc_self, nc_pc, tested>>
    /\ UNCHANGED <<walkVars, splitVars>>

\* the file systems a call finds when a concurrent actor is at work: empty,
\* or holding the first names of the chain of 'report.txt'
RaceFileSystems ==
    { {},
      {<<Report \o Txt>>},
      {<<Report \o Txt>>, <<Report \o CopyNoCount \o Txt>>} }

InitRace ==
    /\ fs = Tree1
    /\ WalkIdle
    /\ candidate_path = <<>>
    /\ nc_self = <<>>
    /\ nc_pc = "idle"
    /\ tested = <<>>
    /\ exists \in RaceFileSystems
    /\ SplitIdle

NextRace ==
    \/ NextNC
    \/ create

\* noconflict with a concurrent actor that creates entries
SpecRace == InitRace /\ [][NextRace]_vars

-----------------------------------------------------------------------------
(* Properties of noconflict *)

\* C3: noconflict returns the first path that does not exist in the chain
\* that starts at the path it was called on and goes from each candidate to
\* its next copy name: every candidate tested before the returned one
\* exists, the returned one does not, and a path that does not exist is
\* returned unchanged.
C3_FirstFree ==
    nc_pc = "returned" =>
        /\ candidate_path \notin exists
        /\ tested # <<>>
        /\ tested[1] = nc_self
        /\ tested[Len(tested)] = candidate_path
        /\ \A k \in 1..(Len(tested) - 1) :
              /\ tested[k] \in exists
              /\ tested[k + 1] = NextCandidate(tested[k])
        /\ (nc_self \notin exists => candidate_path = nc_self)

\* a call that returned after two candidates that exist
C3_Witness ==
    /\ nc_pc = "returned"
    /\ Len(tested) > 2
    /\ tested[1] \in exists
    /\ tested[2] \in exists

\* the position of the last "." of s, 0 when it has none
LastDot(s) ==
    IF \E k \in 1..Len(s) : s[k] = "."
       THEN CHOOSE k \in 1..Len(s) : s[k] = "." /\ \A m \in (k + 1)..Len(s) : s[m] # "."
    ELSE 0

\* the part of s from its last "." on, and the part before it
ExtOf(s) == IF LastDot(s) = 0 THEN <<>> ELSE SubSeq(s, LastDot(s), Len(s))
StemOf(s) == IF LastDot(s) = 0 THEN s ELSE SubSeq(s, 1, LastDot(s) - 1)

\* the marker " (Copy)" for n = 0 and " (Copy n)" for n > 0
Marker(n) == CopyOpen \o (IF n = 0 THEN <<>> ELSE <<" ">> \o Decimal(n)) \o <<")">>

\* the lengths of the copy markers the stem t ends with: " (Copy)" or
\* " (Copy " followed by decimal digits and ")"
MarkerLens(t) ==
    {m \in 1..Len(t) :
        LET u == SubSeq(t, Len(t) - m + 1, Len(t)) IN
            \/ u = Marker(0)
            \/ /\ m > Len(Marker(0)) + 1
               /\ SubSeq(u, 1, Len(CopyOpen) + 1) = CopyOpen \o <<" ">>
               /\ u[m] = ")"
               /\ \A k \in (Len(CopyOpen) + 2)..(m - 1) : u[k] \in Digits}

\* the next copy name the grammar of the claim gives for s
ExpectedNext(s) ==
    LET t == StemOf(s)
        e == ExtOf(s)
    IN  IF MarkerLens(t) = {}
           THEN t \o Marker(0) \o e
        ELSE LET m == CHOOSE m0 \in MarkerLens(t) : TRUE
                 count == SubSeq(t, Len(t) - m + Len(CopyOpen) + 1, Len(t) - 1)
             IN  SubSeq(t, 1, Len(t) - m) \o Marker(int(count) + 1) \o e

\* C4: each step of noconflict maps 'name+ext' without copy marker to
\* 'name (Copy)ext', 'name (Copy)ext' to 'name (Copy 1)ext' and
\* 'name (Copy N)ext' to 'name (Copy N+1)ext', ext being the part from the
\* last "." of the final segment on (possibly empty), and keeps the parent;
\* with only 'report.txt' existing the result is 'report (Copy).txt', with
\* 'report.txt' and 'report (Copy).txt' existing it is 'report (Copy 1).txt'.
C4_NextCopyName ==
    /\ \A k \in 1..(Len(tested) - 1) :
          /\ name(tested[k + 1]) = ExpectedNext(name(tested[k]))
          /\ parent(tested[k + 1]) = parent(tested[k])
    /\ (nc_pc = "returned" /\ nc_self = <<Report \o Txt>>) =>
          /\ exists = {<<Report \o Txt>>}
                => candidate_path = <<Report \o Marker(0) \o Txt>>
          /\ exists = {<<Report \o Txt>>, <<Report \o Marker(0) \o Txt>>}
                => candidate_path = <<Report \o <<" ", "(", "C", "o", "p", "y", " ", "1", ")">> \o Txt>>

\* the call on 'report.txt' that returned 'report (Copy 1).txt'
C4_Witness ==
    /\ nc_pc = "returned"
    /\ nc_self = <<Report \o Txt>>
    /\ exists = {<<Report \o Txt>>, <<Report \o Marker(0) \o Txt>>}
    /\ candidate_path = <<Report \o <<" ", "(", "C", "o", "p", "y", " ", "1", ")">> \o Txt>>

\* the stem of s (s without its extension) ends with "(Copy" and a closing
\* ")" with something between them that is not a count: neither nothing nor
\* a blank followed by decimal digits
Malformed(s) ==
    LET t == StemOf(s) IN
        /\ MarkerLens(t) = {}
        /\ \E m \in (Len(CopyOpen) + 2)..Len(t) :
              LET u == SubSeq(t, Len(t) - m + 1, Len(t)) IN
                  /\ SubSeq(u, 1, Len(CopyOpen)) = CopyOpen
                  /\ u[m] = ")"
                  /\ \A k \in (Len(CopyOpen) + 1)..(m - 1) : u[k] \notin {"(", ")"}

GroupsOf(k) == cre_copy(name(tested[k]))
CountOf(k) == copy_count(GroupsOf(k))

\* C13: every name the generation step produces from (name, copy count,
\* ext) is parsed by noconflict's own pattern into the same name, the same
\* copy count (absent for "(Copy)", else a blank and the decimal digits of
\* the count) and the same ext, and its copy group takes part in the match:
\* the generated name is recognised as a copy name.
C13_RoundTrip ==
    \A k \in 1..(Len(tested) - 1) :
        LET g == GroupsOf(k)
            c == CountOf(k)
            r == cre_copy(name(tested[k + 1]))
        IN  /\ r.name = g.name
            /\ r.ext = g.ext
            /\ r.copy # <<>>
            /\ c = <<>> => r.copy_count = <<>>
            /\ c # <<>> => /\ r.copy_count = <<" ">> \o Decimal(c[1])
                           /\ int(r.copy_count) = c[1]

\* a call that generated, from a name with a dot in it and an ext, first a
\* name without count and then from that one a name with a count
C13_Witness ==
    /\ nc_pc = "returned"
    /\ \E k \in 1..(Len(tested) - 2) :
          /\ CountOf(k) = <<>>
          /\ CountOf(k + 1) # <<>>
          /\ GroupsOf(k).ext # <<>>
          /\ "." \in Range(GroupsOf(k).name)

\* C15: noconflict is not atomic against a concurrent actor that creates
\* entries: none of its own steps creates or reserves a name, the candidate
\* it leaves the loop with was absent when it was tested, and from that test
\* on the call tests nothing again and returns that candidate whatever is
\* created meanwhile; so a state in which it has returned a path that exists
\* is reachable (C15_Witness).
C15_NotAtomic ==
    [][/\ nc_pc' # nc_pc => exists' = exists
       /\ (nc_pc = "test" /\ nc_pc' = "return") => candidate_path \notin exists
       /\ nc_pc = "return" => /\ nc_pc' \in {"return", "returned"}
                              /\ candidate_path' = candidate_path
                              /\ tested' = tested]_vars

\* noconflict has returned a path that exists: it was free at the last test
\* and created before the return
C15_Witness ==
    /\ nc_pc = "returned"
    /\ candidate_path \in exists
    /\ tested[Len(tested)] = candidate_path
    /\ Len(tested) > 1

\* the rank of the candidate tested as number k in its chain: -1 without a
\* copy marker, 0 for "(Copy)", N for "(Copy N)"
Rank(k) ==
    IF GroupsOf(k).copy = <<>> THEN -1
    ELSE IF GroupsOf(k).copy_count = <<>> THEN 0
    ELSE int(GroupsOf(k).copy_count)

\* C18: with a finite set of existing names that does not change during the
\* call, noconflict terminates: each iteration derives a candidate whose
\* copy count is greater than that of every candidate tested before in the
\* call, so no candidate is tested twice, and the call comes to return a
\* candidate that does not exist.
C18_Terminates ==
    /\ [](\A j, k \in 1..Len(tested) :
             j < k => /\ tested[j] # tested[k]
                      /\ Rank(j) < Rank(k)
                      /\ (j > 1 => Rank(k) = Rank(j) + (k - j)))
    /\ (nc_pc = "test") ~> (nc_pc = "returned" /\ candidate_path \notin exists)

\* a call that returned after it had found every name of the chain that was
\* there beforehand
C18_Witness ==
    /\ nc_pc = "returned"
    /\ Len(tested) > 3
    /\ exists = {tested[k] : k \in 1..(Len(tested) - 1)}

-----------------------------------------------------------------------------
(* splitext and stripext *)

\* PurePath.suffix: the final segment from its last "." on, "" when that
\* "." is the first or the last character of the segment or there is none
suffix(p) ==
    LET n == name(p)
        k == LastDot(n)
    IN  IF 1 < k /\ k < Len(n) THEN SubSeq(n, k, Len(n)) ELSE <<>>

\* PurePath.stem: the final segment without its suffix
stem(p) == SubSeq(name(p), 1, Len(name(p)) - Len(suffix(p)))

\* path.splitext: (Path(self.stem), self.suffix)
splitext(p) == <<<<stem(p)>>, suffix(p)>>

\* path.stripext: Path(self.stem)
stripext(p) == <<stem(p)>>

\* the final segments and the parents of the paths the methods are called on
SplitNames ==
    NCNames \cup { <<"x", ".", "t", "a", "r", ".", "g", "z">>, <<"x", ".", ".", "t">> }
SplitParents == {<<>>, <<<<"d">>>>, <<<<"d", ".", "e">>>>, <<<<"d">>, <<"e">>>>}
SplitPaths == {Append(d, n) : d \in SplitParents, n \in SplitNames}

splitext_call ==
    /\ \E p \in SplitPaths :
          /\ split_self' = p
          /\ split_out' = splitext(p)
    /\ split_op' = "splitext"
    /\ UNCHANGED <<walkVars, ncVars>>

stripext_call ==
    /\ \E p \in SplitPaths :
          /\ split_self' = p
          /\ split_out' = <<stripext(p)>>
    /\ split_op' = "stripext"
    /\ UNCHANGED <<walkVars, ncVars>>

InitSplit ==
    /\ fs = Tree1
    /\ WalkIdle
    /\ NcIdle
    /\ SplitIdle

NextSplit ==
    \/ splitext_call
    \/ stripext_call

SpecSplit == InitSplit /\ [][NextSplit]_vars

\* C17 as claimed: for every path p, splitext returns a pair (a, b) such
\* that a concatenated with b equals p, also when p has one or more parent
\* directory segments.
C17_SplitextConcat ==
    split_op = "splitext" => str(split_out[1]) \o split_out[2] = str(split_self)

\* what the code does for C17: a is made of self.stem alone, so a
\* concatenated with b is the final segment of p, and equals p only when p
\* has no parent segment; stripext drops the parent segments in the same way.
C17_FinalSegmentOnly ==
    /\ split_op = "splitext"
          => /\ str(split_out[1]) \o split_out[2] = name(split_self)
             /\ (str(split_out[1]) \o split_out[2] = str(split_self)
                    <=> Len(split_self) = 1)
    /\ split_op = "stripext"
          => /\ Len(split_out[1]) = 1
             /\ name(split_out[1]) \o suffix(split_self) = name(split_self)

====
